---- MODULE Spec2Model ----
(***************************************************************************)
(* Weighted interval scheduling (crate w_inter): the compatibility finder  *)
(* `final_compatible` (src/src/util.rs), the DP engine `internal` and the  *)
(* two entry points `sorted` and `unsorted` (src/src/solvers.rs).          *)
(*                                                                         *)
(* Indices are 0-based as in the Rust source; a TLA+ sequence s holds the  *)
(* element of index i at s[i + 1].  Option<usize> is an integer with None  *)
(* standing for Option::None.  A failed slice bounds check is the control  *)
(* state "panic".  Weights are unbounded naturals: the weight type is a    *)
(* type parameter of the crate and the model keeps all sums far below any  *)
(* machine width.                                                          *)
(***************************************************************************)
EXTENDS Integers, Sequences, FiniteSets, TLC

VARIABLES
  intervals,     \* the slice the engine works on (for unsorted: the sorted clone)
  memoization,   \* the memo buffer the engine is handed
  solution,      \* the solution buffer the engine appends to
  pc,            \* "idle" | "fill" | "recon" | "done" | "panic" | "off"
  entry,         \* "none" | "sorted" | "unsorted": the entry point that was called
  engine,        \* TRUE once `internal` has been invoked by the call
  index,         \* loop variable of the fill pass (solvers.rs:83)
  j,             \* cursor of the reconstruction pass (solvers.rs:96)
  base,          \* history: the solution buffer as it was when the call began
  memo0,         \* history: the memo buffer as it was when the call began
  fcpc,          \* final_compatible run alone: "start" | "loop" | "done" | "off"
  fcIndex,       \* its argument `index`
  low,           \* its local `low`
  high,          \* its local `high`
  probes,        \* the indices at which it has read an end bound
  fcResult       \* its return value

vars == <<intervals, memoization, solution, pc, entry, engine, index, j, base,
          memo0, fcpc, fcIndex, low, high, probes, fcResult>>

engineVars == <<intervals, memoization, solution, pc, entry, engine, index, j,
                base, memo0>>

fcVars == <<fcpc, fcIndex, low, high, probes, fcResult>>

(***************************************************************************)
(* Bounds of the model.                                                    *)
(***************************************************************************)
MaxLen == 3        \* longest input handed to sorted
MaxTime == 2       \* interval bounds range over 0..MaxTime
MaxWeight == 2     \* weights range over 1..MaxWeight
UMaxLen == 2       \* longest arbitrary-order input handed to unsorted
FCMaxLen == 4      \* longest input of final_compatible run alone
StaleWeight == 7   \* what a reused memo buffer holds in every entry

None == -1

(***************************************************************************)
(* Data.                                                                   *)
(***************************************************************************)
WeightedInterval ==
  {x \in [start : 0..MaxTime, end : 0..MaxTime, weight : 1..MaxWeight] :
     x.start <= x.end}

Iv(s, e, w) == [start |-> s, end |-> e, weight |-> w]

IsSortedByEnd(iv) ==
  \A i \in 1..(Len(iv) - 1) : iv[i].end <= iv[i + 1].end

SeqsUpTo(S, n) == UNION {[1..k -> S] : k \in 0..n}

SortedInputs == {iv \in SeqsUpTo(WeightedInterval, MaxLen) : IsSortedByEnd(iv)}

\* tests::small_example and the crate documentation's example
SmallExample ==
  <<Iv(0, 6, 3), Iv(1, 4, 5), Iv(3, 5, 5), Iv(3, 8, 8),
    Iv(4, 7, 3), Iv(5, 9, 7), Iv(6, 10, 3), Iv(8, 11, 4)>>

DocExample == <<Iv(0, 1, 2)>> \o SmallExample

AnyOrderInputs ==
  SeqsUpTo(WeightedInterval, UMaxLen) \cup {SmallExample, DocExample}

(***************************************************************************)
(* util.rs: final_compatible.                                              *)
(***************************************************************************)
CompatibleStrict(e, target) == e < target

Compatible(e, target) == e <= target

Mid(lo, hi) == lo + (hi - lo + 1) \div 2

\* one iteration of the while loop
BisectStep(iv, target, lo, hi) ==
  LET mid == Mid(lo, hi)
  IN  IF Compatible(iv[mid + 1].end, target)
        THEN [low |-> mid, high |-> hi]
        ELSE [low |-> lo, high |-> mid - 1]

RECURSIVE Bisect(_, _, _, _)
Bisect(iv, target, lo, hi) ==
  IF lo < hi
    THEN LET s == BisectStep(iv, target, lo, hi)
         IN  Bisect(iv, target, s.low, s.high)
    ELSE lo

TargetEnd(iv, i) == iv[i + 1].end

Target(iv, i) == iv[i + 1].start

final_compatible(iv, i) ==
  IF i = 0 THEN None
  ELSE LET target == Target(iv, i)
           lo == Bisect(iv, target, 0, i - 1)
       IN  IF ~Compatible(iv[lo + 1].end, target) THEN None ELSE lo

(***************************************************************************)
(* solvers.rs: the pieces of sorted, internal and unsorted.                *)
(***************************************************************************)
HasFirst(iv) == Len(iv) > 0

SeedMemoSkipped(memo, iv) == memo

SeedMemo(memo, iv) == [memo EXCEPT ![1] = iv[1].weight]

\* weight(i) + memo[compat(i)], or weight(i) alone
IncludedValue(iv, memo, i) ==
  LET last == final_compatible(iv, i)
  IN  IF last # None THEN iv[i + 1].weight + memo[last + 1]
                     ELSE iv[i + 1].weight

Max(a, b) == IF a >= b THEN a ELSE b

FillEntry(iv, memo, i) == Max(IncludedValue(iv, memo, i), memo[i])

ReconStartUnchecked(n) == IF n # 0 THEN n - 1 ELSE 0

ReconStart(n) == IF n # 0 THEN n - 1 ELSE None

SelectsOnTie(i, z, memo) == i = 0 \/ z >= memo[i]

Selects(i, z, memo) == i = 0 \/ z > memo[i]

PushFront(sol, x) == <<x>> \o sol

Push(sol, x) == Append(sol, x)

AllocMemo(iv) == IF HasFirst(iv) THEN <<iv[1].weight>> ELSE <<>>

\* sort_unstable_by end: every arrangement in non-decreasing end order
RECURSIVE SortArrangements(_, _)
SortArrangements(iv, S) ==
  IF S = {} THEN {<<>>}
  ELSE LET first == {i \in S : \A k \in S : iv[i].end <= iv[k].end}
       IN  UNION {{<<iv[i]>> \o t : t \in SortArrangements(iv, S \ {i})} :
                   i \in first}

sort_unstable_by_end(iv) == SortArrangements(iv, DOMAIN iv)

(***************************************************************************)
(* Initial states: the caller's buffers before the call.                   *)
(***************************************************************************)
\* vec![0; max_interval_count], as in the documentation's example
FreshMemo == [i \in 1..MaxLen |-> 0]

\* a reused buffer: every entry holds a total left by an earlier solve
StaleMemo == [i \in 1..MaxLen |-> StaleWeight]

\* a reused buffer: what solving MaxLen disjoint unit-weight intervals leaves
LeftoverMemo == [i \in 1..MaxLen |-> i]

PriorSolution == <<Iv(0, 1, 1)>>

FCIdle ==
  /\ fcpc = "off"
  /\ fcIndex = 0
  /\ low = 0
  /\ high = 0
  /\ probes = {}
  /\ fcResult = None

Init ==
  /\ intervals = <<>>
  /\ memoization \in {<<>>, FreshMemo, StaleMemo, LeftoverMemo}
  /\ solution \in {<<>>, PriorSolution}
  /\ pc = "idle"
  /\ entry = "none"
  /\ engine = FALSE
  /\ index = 0
  /\ j = None
  /\ base = solution
  /\ memo0 = memoization
  /\ FCIdle

(***************************************************************************)
(* sorted (solvers.rs:54-70).                                              *)
(***************************************************************************)
SortedCall(iv) ==
  /\ pc = "idle"
  /\ Len(memoization) >= Len(iv)
  /\ intervals' = iv
  /\ entry' = "sorted"
  /\ base' = solution
  /\ IF HasFirst(iv)
       THEN /\ memoization' = SeedMemo(memoization, iv)
            /\ engine' = TRUE
            /\ index' = 1
            /\ pc' = "fill"
       ELSE /\ pc' = "done"
            /\ UNCHANGED <<memoization, engine, index>>
  /\ UNCHANGED <<solution, j, memo0, fcVars>>

(***************************************************************************)
(* unsorted (solvers.rs:118-150): clone, sort, allocate, call internal.    *)
(***************************************************************************)
UnsortedCall(iv) ==
  /\ pc = "idle"
  /\ \E s \in sort_unstable_by_end(iv) :
       /\ intervals' = s
       /\ memoization' = AllocMemo(s)
  /\ solution' = <<>>
  /\ base' = <<>>
  /\ entry' = "unsorted"
  /\ engine' = TRUE
  /\ index' = 1
  /\ pc' = "fill"
  /\ UNCHANGED <<j, memo0, fcVars>>

(***************************************************************************)
(* internal (solvers.rs:74-111).                                           *)
(***************************************************************************)
\* one iteration of `for index in 1..intervals.len()`
FillStep ==
  /\ pc = "fill"
  /\ index < Len(intervals)
  /\ IF index < Len(memoization)
       THEN /\ memoization' =
                 [memoization EXCEPT
                    ![index + 1] = FillEntry(intervals, memoization, index)]
            /\ index' = index + 1
            /\ pc' = "fill"
       ELSE /\ pc' = "panic"
            /\ UNCHANGED <<memoization, index>>
  /\ UNCHANGED <<intervals, solution, entry, engine, j, base, memo0, fcVars>>

\* the loop is over; `let mut j = ...`
FillDone ==
  /\ pc = "fill"
  /\ index >= Len(intervals)
  /\ j' = ReconStart(Len(intervals))
  /\ pc' = "recon"
  /\ UNCHANGED <<intervals, memoization, solution, entry, engine, index, base,
                 memo0, fcVars>>

\* one iteration of `while let Some(i) = j`
ReconStep ==
  /\ pc = "recon"
  /\ j # None
  /\ IF j < Len(intervals) /\ (j = 0 \/ j - 1 < Len(memoization))
       THEN /\ LET last == final_compatible(intervals, j)
                   z == IncludedValue(intervals, memoization, j)
               IN  IF Selects(j, z, memoization)
                     THEN /\ solution' = Push(solution, intervals[j + 1])
                          /\ j' = last
                     ELSE /\ j' = j - 1
                          /\ UNCHANGED solution
            /\ pc' = "recon"
       ELSE /\ pc' = "panic"
            /\ UNCHANGED <<solution, j>>
  /\ UNCHANGED <<intervals, memoization, entry, engine, index, base, memo0,
                 fcVars>>

\* the cursor is exhausted: internal returns, and so does the entry point
Return ==
  /\ pc = "recon"
  /\ j = None
  /\ pc' = "done"
  /\ UNCHANGED <<intervals, memoization, solution, entry, engine, index, j,
                 base, memo0, fcVars>>

\* the caller picks an entry point and an input
CallSorted ==
  /\ pc = "idle"
  /\ \E iv \in SortedInputs : SortedCall(iv)

CallUnsorted ==
  /\ pc = "idle"
  /\ \E iv \in AnyOrderInputs : UnsortedCall(iv)

Next ==
  \/ CallSorted
  \/ CallUnsorted
  \/ FillStep
  \/ FillDone
  \/ ReconStep
  \/ Return

Spec == Init /\ [][Next]_vars

(***************************************************************************)
(* internal as a function of its arguments: the fill pass, then the        *)
(* reconstruction pass, iterated to the end.                               *)
(***************************************************************************)
RECURSIVE FillFrom(_, _, _)
FillFrom(iv, memo, i) ==
  IF i < Len(iv)
    THEN FillFrom(iv, [memo EXCEPT ![i + 1] = FillEntry(iv, memo, i)], i + 1)
    ELSE memo

RECURSIVE ReconFrom(_, _, _, _)
ReconFrom(iv, memo, cur, sol) ==
  IF cur = None THEN sol
  ELSE IF Selects(cur, IncludedValue(iv, memo, cur), memo)
         THEN ReconFrom(iv, memo, final_compatible(iv, cur), Push(sol, iv[cur + 1]))
         ELSE ReconFrom(iv, memo, cur - 1, sol)

internal(iv, memo, sol) ==
  ReconFrom(iv, FillFrom(iv, memo, 1), ReconStart(Len(iv)), sol)

sorted(iv, memo, sol) ==
  IF HasFirst(iv) THEN internal(iv, SeedMemo(memo, iv), sol) ELSE sol

(***************************************************************************)
(* final_compatible run alone, one loop iteration per step                 *)
(* (util.rs:7-23).                                                         *)
(***************************************************************************)
FCIntervals == {x \in WeightedInterval : x.weight = 1}

FCInputs ==
  {iv \in SeqsUpTo(FCIntervals, FCMaxLen) : Len(iv) > 0 /\ IsSortedByEnd(iv)}

InitFC ==
  /\ intervals \in FCInputs
  /\ fcIndex \in 0..(Len(intervals) - 1)
  /\ fcpc = "start"
  /\ low = 0
  /\ high = 0
  /\ probes = {}
  /\ fcResult = None
  /\ memoization = <<>>
  /\ solution = <<>>
  /\ pc = "off"
  /\ entry = "none"
  /\ engine = FALSE
  /\ index = 0
  /\ j = None
  /\ base = <<>>
  /\ memo0 = <<>>

\* lines 8-12
FCBegin ==
  /\ fcpc = "start"
  /\ IF fcIndex = 0
       THEN /\ fcResult' = None
            /\ fcpc' = "done"
            /\ UNCHANGED <<low, high>>
       ELSE /\ low' = 0
            /\ high' = fcIndex - 1
            /\ fcpc' = "loop"
            /\ UNCHANGED fcResult
  /\ UNCHANGED <<fcIndex, probes, engineVars>>

\* lines 15-19: one iteration of `while low < high`
FCIterate ==
  /\ fcpc = "loop"
  /\ low < high
  /\ LET s == BisectStep(intervals, Target(intervals, fcIndex), low, high)
     IN  /\ low' = s.low
         /\ high' = s.high
  /\ probes' = probes \cup {Mid(low, high)}
  /\ UNCHANGED <<fcpc, fcIndex, fcResult, engineVars>>

\* lines 20-22
FCFinish ==
  /\ fcpc = "loop"
  /\ ~(low < high)
  /\ probes' = probes \cup {low}
  /\ fcResult' = IF ~Compatible(intervals[low + 1].end, Target(intervals, fcIndex))
                   THEN None
                   ELSE low
  /\ fcpc' = "done"
  /\ UNCHANGED <<fcIndex, low, high, engineVars>>

NextFC ==
  \/ FCBegin
  \/ FCIterate
  \/ FCFinish

SpecFC == InitFC /\ [][NextFC]_vars

(***************************************************************************)
(* What the claims speak of.                                               *)
(***************************************************************************)
Overlap(a, b) == a.start < b.end /\ b.start < a.end

PairwiseNonOverlapping(s) ==
  \A a, b \in 1..Len(s) : a < b => ~Overlap(s[a], s[b])

RECURSIVE TotalWeight(_)
TotalWeight(s) ==
  IF Len(s) = 0 THEN 0 ELSE s[1].weight + TotalWeight(Tail(s))

RECURSIVE SetWeight(_, _)
SetWeight(iv, I) ==
  IF I = {} THEN 0
  ELSE LET i == CHOOSE x \in I : TRUE
       IN  iv[i].weight + SetWeight(iv, I \ {i})

\* the subsets of the input in which no two intervals overlap
Feasible(iv) ==
  {I \in SUBSET (DOMAIN iv) :
     \A a, b \in I : a # b => ~Overlap(iv[a], iv[b])}

\* the maximum total weight over all of them
BestWeight(iv) ==
  LET totals == {SetWeight(iv, I) : I \in Feasible(iv)}
  IN  CHOOSE m \in totals : \A t \in totals : t <= m

\* the greatest index k < i with iv[k].end <= iv[i].start, if there is one
GreatestCompatible(iv, i) ==
  LET ks == {k \in 0..(i - 1) : iv[k + 1].end <= iv[i + 1].start}
  IN  IF ks = {} THEN None ELSE CHOOSE k \in ks : \A m \in ks : m <= k

\* what the call has appended to the solution buffer so far
Appended == SubSeq(solution, Len(base) + 1, Len(solution))

Finished == pc \in {"done", "panic"}

\* weight(i) + memo[compat(i)], or weight(i) alone, read off the state
IncludedAt(i) ==
  LET k == GreatestCompatible(intervals, i)
  IN  IF k = None THEN intervals[i + 1].weight
      ELSE intervals[i + 1].weight + memoization[k + 1]

(***************************************************************************)
(* C1. After sorted on a non-empty end-sorted input, with an empty         *)
(* solution buffer, the weights in the solution buffer sum to the maximum  *)
(* total weight of a pairwise non-overlapping subset of the input.         *)
(***************************************************************************)
C1_SortedIsOptimal ==
  (entry = "sorted" /\ pc = "done" /\ Len(intervals) > 0 /\ base = <<>>)
    => TotalWeight(solution) = BestWeight(intervals)

(***************************************************************************)
(* C2. The intervals sorted appends are pairwise non-overlapping, at every *)
(* point of the call; touching intervals may both be appended.             *)
(***************************************************************************)
C2_AppendedNonOverlapping ==
  entry = "sorted" => PairwiseNonOverlapping(Appended)

C2_Witness ==
  /\ entry = "sorted"
  /\ pc = "done"
  /\ base = <<>>
  /\ Len(solution) = 2
  /\ solution[2].end = solution[1].start
  /\ Len(intervals) = 3

(***************************************************************************)
(* C3. unsorted never fails a bounds check, and the memo buffer it hands   *)
(* to the engine is as long as the input.                                  *)
(***************************************************************************)
C3_UnsortedIsSafe ==
  (entry = "unsorted" /\ Finished)
    => (pc = "done" /\ Len(memoization) = Len(intervals))

(***************************************************************************)
(* C4. unsorted returns a maximum-weight set of pairwise non-overlapping   *)
(* input intervals, latest end bound first; for tests::small_example's     *)
(* eight intervals that is (5,9,7) and then (1,4,5).                       *)
(***************************************************************************)
C4_UnsortedIsOptimal ==
  (entry = "unsorted" /\ Finished)
    => /\ pc = "done"
       /\ PairwiseNonOverlapping(solution)
       /\ TotalWeight(solution) = BestWeight(intervals)
       /\ \A a, b \in 1..Len(solution) : a < b => solution[a].end >= solution[b].end
       /\ intervals \in sort_unstable_by_end(SmallExample)
            => solution = <<Iv(5, 9, 7), Iv(1, 4, 5)>>

(***************************************************************************)
(* C5. For the nine intervals of the crate documentation's example,        *)
(* unsorted returns (1,4,5) and then (5,9,7).                              *)
(***************************************************************************)
C5_DocExampleResult ==
  (entry = "unsorted" /\ Finished /\ intervals \in sort_unstable_by_end(DocExample))
    => (pc = "done" /\ solution = <<Iv(1, 4, 5), Iv(5, 9, 7)>>)

(***************************************************************************)
(* C6. Whatever the memo buffer held before the call, sorted appends what  *)
(* it appends when handed a freshly zeroed memo buffer.                    *)
(***************************************************************************)
C6_MemoNeedsNoClearing ==
  (entry = "sorted" /\ pc = "done")
    => Appended = sorted(intervals, FreshMemo, <<>>)

C6_Witness ==
  /\ entry = "sorted"
  /\ pc = "done"
  /\ memo0 = StaleMemo
  /\ Len(intervals) = MaxLen
  /\ Len(Appended) >= 2
  /\ \A i \in 1..MaxLen : memoization[i] # memo0[i]

(***************************************************************************)
(* C7. sorted only appends: what the solution buffer held before the call  *)
(* stays in place as a prefix, and when the call is over what follows it   *)
(* is the solution the same call puts into an empty buffer.                *)
(***************************************************************************)
C7_SolutionAppendOnly ==
  entry = "sorted"
    => /\ Len(solution) >= Len(base)
       /\ SubSeq(solution, 1, Len(base)) = base
       /\ pc = "done" => solution = base \o sorted(intervals, memo0, <<>>)

C7_Witness ==
  /\ entry = "sorted"
  /\ pc = "done"
  /\ base = PriorSolution
  /\ Len(solution) = Len(base) + 2

C9_TieBreakExcludes ==
  [][(pc = "recon" /\ j # None /\ j > 0 /\ pc' = "recon")
       => LET z == IncludedAt(j)
              excluded == memoization[j]
          IN  /\ z = excluded => (solution' = solution /\ j' = j - 1)
              /\ z < excluded => (solution' = solution /\ j' = j - 1)
              /\ z > excluded =>
                   /\ solution' = Append(solution, intervals[j + 1])
                   /\ j' = GreatestCompatible(intervals, j)]_vars

\* the cursor began at the last index, found a tie there and stepped down
C9_Witness ==
  /\ pc = "recon"
  /\ entry = "sorted"
  /\ Len(intervals) = 3
  /\ j = 1
  /\ solution = base
  /\ IncludedAt(2) = memoization[2]
  /\ GreatestCompatible(intervals, 2) # None

(***************************************************************************)
(* C10. On an end-sorted input final_compatible returns the greatest       *)
(* index k < i with intervals[k].end <= intervals[i].start, and none       *)
(* exactly when there is no such k; high never falls below low and every   *)
(* end bound it reads is at an index in 0..i-1.  The value the engine      *)
(* gets from it is that same index.                                        *)
(***************************************************************************)
C10_FinalCompatible ==
  /\ fcpc \in {"loop", "done"} /\ fcIndex > 0 => (0 <= low /\ low <= high)
  /\ fcpc # "off" => probes \subseteq 0..(fcIndex - 1)
  /\ fcpc = "done" =>
       /\ fcResult = GreatestCompatible(intervals, fcIndex)
       /\ final_compatible(intervals, fcIndex) = fcResult
       /\ fcIndex = 0 => fcResult = None

C10_Witness ==
  /\ fcpc = "done"
  /\ fcIndex = 3
  /\ fcResult = 1
  /\ intervals[2].end = intervals[4].start
  /\ Cardinality(probes) >= 2

====
